---- MODULE Spec2Model ----
(***************************************************************************)
(* Model of ipld/merkledag/traverse/traverse.go: Traverse walks a graph of *)
(* lazily fetched nodes in pre-order DFS, post-order DFS or BFS, calling   *)
(* the visitor opts.Func at each node, optionally skipping nodes already   *)
(* seen (opts.SkipDuplicates) and handing retrieval errors to opts.ErrFunc.*)
(*                                                                         *)
(* A node is its identifier (Cid), a positive integer; the root is 1.  The *)
(* backing store is `graph`: graph[n] is the ordered list of the targets   *)
(* of n's links.  Every Traverse call (a session s) owns its traversal     *)
(* struct (opts[s], seen[s]) and its control state (the DFS call stack,    *)
(* the BFS deque).  log[s] records, in order, every call the session makes *)
(* on its collaborators (Func, Link.GetNode, ErrFunc) and every insertion  *)
(* into seen.                                                              *)
(***************************************************************************)
EXTENDS Integers, Sequences, FiniteSets, TLC

\* ------------------------------------------------------------------ bounds
\* Largest number of links in a graph (a graph has at most MaxEdges+1 nodes).
MaxEdges == 3
\* Retrieval calls 1..MaxFailIdx of a session may fail.
MaxFailIdx == 2
\* The visitor may return an error at its 1st..MaxErrAt-th invocation.
MaxErrAt == 2

\* Cap on the retrieval calls of one session: a traversal of a cyclic graph
\* without duplicate suppression never returns.  No acyclic graph of MaxEdges
\* links has that many link paths from the root.
MaxCalls == 2 * MaxEdges + 2

\* ------------------------------------------------------------ basic values
Sessions == {1, 2}

Root == 1
Nil == 0
Nodes == 1..(MaxEdges + 1)

DFSPre == 0
DFSPost == 1
BFS == 2
\* Order is an int: one more value stands for every unrecognised order.
Orders == {DFSPre, DFSPost, BFS, 3}

NoErr == "nil"
ErrNotFound == "ErrNotFound"
ErrVisitor == "ErrVisitor"
ErrEscalated == "ErrEscalated"
ErrDequeue == "failed to dequeue though queue not empty"

\* An ErrFunc: absent (isNil), or a function of the retrieval error.
ErrFuncNil == [isNil |-> TRUE, f |-> [e \in {ErrNotFound} |-> e]]
ErrFuncSkip == [isNil |-> FALSE, f |-> [e \in {ErrNotFound} |-> NoErr]]
ErrFuncSame == [isNil |-> FALSE, f |-> [e \in {ErrNotFound} |-> e]]
ErrFuncOther == [isNil |-> FALSE, f |-> [e \in {ErrNotFound} |-> ErrEscalated]]
ErrFuncs == {ErrFuncNil, ErrFuncSkip, ErrFuncSame, ErrFuncOther}

Options == [Order : Orders, SkipDuplicates : BOOLEAN, ErrFunc : ErrFuncs]

\* ------------------------------------------------------------------ graphs
\* Identifiers are opaque to the traversal (they are only compared), so the
\* graphs are listed up to renaming: as edge lists <<source, target>> in
\* which the nodes are numbered in the order a breadth-first scan from the
\* root discovers them, each source's links in link order.
Max(S) == CHOOSE x \in S : \A y \in S : y <= x

Discovered(e) == Max({Root} \cup {e[i][2] : i \in 1..Len(e)})

LastSrc(e) == IF Len(e) = 0 THEN Root ELSE e[Len(e)][1]

RECURSIVE EdgeLists(_)
EdgeLists(k) ==
    IF k = 0 THEN {<< >>}
    ELSE LET prev == EdgeLists(k - 1)
         IN  prev \cup
             UNION { { Append(e, <<src, dst>>) :
                         src \in LastSrc(e)..Discovered(e),
                         dst \in 1..(Discovered(e) + 1) } :
                     e \in {p \in prev : Len(p) = k - 1} }

\* Links(n) of every node, from an edge list.
LinksOf(e) ==
    [n \in Nodes |->
        LET mine == SelectSeq(e, LAMBDA p : p[1] = n)
        IN  [i \in 1..Len(mine) |-> mine[i][2]]]

Graphs == {LinksOf(e) : e \in EdgeLists(MaxEdges)}

\* ------------------------------------------------------------------- state
VARIABLES
    graph,      \* the backing store: graph[n] = targets of n.Links(), in order
    fetchPlan,  \* fetchPlan[k]: does a session's k-th Link.GetNode call fail
    funcPlan,   \* funcPlan[k]: does opts.Func return an error at its k-th call
    opts,       \* opts[s]: the Options of session s (traversal.opts)
    seen,       \* seen[s]: traversal.seen of session s
    pc,         \* pc[s]: where session s stands in the code
    stack,      \* stack[s]: the running loops over Links(): the State (Node, Depth),
                \* the index i of the next link, the driver df that owns the loop
    q,          \* q[s]: the deque of bfsTraverse
    ret,        \* ret[s]: the error Traverse returned (NoErr for nil)
    log         \* log[s]: the calls session s made and its insertions into seen
                \* (a GetNode, ErrFunc or Seen entry carries the link it is for:
                \* the node `from` that holds it, its index idx in from.Links()
                \* and the Depth its target is visited at)

vars == <<graph, fetchPlan, funcPlan, opts, seen, pc, stack, q, ret, log>>

\* ----------------------------------------------------------------- the log
Event(op, n, e) == [op |-> op, node |-> n, err |-> e, depth |-> 0, from |-> Nil, idx |-> 0]
FuncEv(st, e) == [Event("Func", st.Node, e) EXCEPT !.depth = st.Depth]
GetEv(l, e) == Event("GetNode", l, e)
ErrFuncEv(l, e) == Event("ErrFunc", l, e)
SeenEv(n) == Event("Seen", n, NoErr)

\* The events of one getNode call, for link idx of the node of frame fr.
OfLink(ev, fr) ==
    [i \in 1..Len(ev) |->
        [ev[i] EXCEPT !.depth = fr.Depth + 1, !.from = fr.Node, !.idx = fr.i]]

OfOp(l, op) == SelectSeq(l, LAMBDA e : e.op = op)
NumOp(l, op) == Len(OfOp(l, op))

\* --------------------------------------------------------- pure operations
\* Link.GetNode (line 68): the store returns the link's target or fails.
LinkGetNode(l, fails) ==
    IF fails THEN [node |-> Nil, err |-> ErrNotFound]
             ELSE [node |-> l, err |-> NoErr]

\* Mutant of shouldSkip: an identifier already seen is not skipped.
shouldSkipNever(o, sn, n) ==
    IF o.SkipDuplicates /\ n \notin sn
    THEN [skip |-> FALSE, seen |-> sn \cup {n}, ev |-> <<SeenEv(n)>>]
    ELSE [skip |-> FALSE, seen |-> sn, ev |-> << >>]

\* Mutant of shouldSkip: the seen set is kept and consulted whatever
\* Options.SkipDuplicates says.
shouldSkipAlways(o, sn, n) ==
    IF n \in sn
    THEN [skip |-> TRUE, seen |-> sn, ev |-> << >>]
    ELSE [skip |-> FALSE, seen |-> sn \cup {n}, ev |-> <<SeenEv(n)>>]

\* Mutant of shouldSkip: the identifier is recorded before it is looked up.
shouldSkipRecordsFirst(o, sn, n) ==
    IF o.SkipDuplicates
    THEN [skip |-> TRUE, seen |-> sn \cup {n},
          ev |-> IF n \in sn THEN << >> ELSE <<SeenEv(n)>>]
    ELSE [skip |-> FALSE, seen |-> sn, ev |-> << >>]

\* traversal.shouldSkip: the skip flag, the seen set afterwards, the log.
shouldSkip(o, sn, n) ==
    IF o.SkipDuplicates
    THEN IF n \in sn
         THEN [skip |-> TRUE, seen |-> sn, ev |-> << >>]
         ELSE [skip |-> FALSE, seen |-> sn \cup {n}, ev |-> <<SeenEv(n)>>]
    ELSE [skip |-> FALSE, seen |-> sn, ev |-> << >>]

\* The closure getNode of traversal.getNode (lines 67-78).
getNodeInner(o, sn, l, fails) ==
    LET r == LinkGetNode(l, fails)
    IN  IF r.err # NoErr
        THEN [next |-> Nil, err |-> r.err, seen |-> sn, ev |-> <<GetEv(l, r.err)>>]
        ELSE LET sk == shouldSkip(o, sn, r.node)
             IN  [next |-> IF sk.skip THEN Nil ELSE r.node,
                  err  |-> NoErr,
                  seen |-> sk.seen,
                  ev   |-> <<GetEv(l, NoErr)>> \o sk.ev]

\* Mutant of getNode: ErrFunc is never consulted.
getNodeNoRecover(o, sn, l, fails) == getNodeInner(o, sn, l, fails)

\* Mutant of getNode: after ErrFunc the link is skipped whatever it returned.
getNodeSkipRegardless(o, sn, l, fails) ==
    LET r == getNodeInner(o, sn, l, fails)
    IN  IF r.err # NoErr /\ ~o.ErrFunc.isNil
        THEN [next |-> Nil, err |-> NoErr, seen |-> r.seen,
              ev |-> r.ev \o <<ErrFuncEv(l, o.ErrFunc.f[r.err])>>]
        ELSE r

\* Mutant of getNode: without an ErrFunc a failed link is skipped.
getNodeSwallowNil(o, sn, l, fails) ==
    LET r == getNodeInner(o, sn, l, fails)
    IN  IF r.err # NoErr
        THEN IF o.ErrFunc.isNil
             THEN [r EXCEPT !.err = NoErr]
             ELSE [next |-> Nil, err |-> o.ErrFunc.f[r.err], seen |-> r.seen,
                   ev |-> r.ev \o <<ErrFuncEv(l, o.ErrFunc.f[r.err])>>]
        ELSE r

\* traversal.getNode (lines 80-85): recovery through ErrFunc.
getNode(o, sn, l, fails) ==
    LET r == getNodeInner(o, sn, l, fails)
    IN  IF r.err # NoErr /\ ~o.ErrFunc.isNil
        THEN LET e == o.ErrFunc.f[r.err]
             IN  [next |-> Nil, err |-> e, seen |-> r.seen,
                  ev |-> r.ev \o <<ErrFuncEv(l, e)>>]
        ELSE r

\* traversal.callFunc: the visitor's answer at this invocation.
callFunc(st, fails) == IF fails THEN ErrVisitor ELSE NoErr

\* Mutant of Dispatch: the DFSPost case is missing from the switch.
DispatchDefault(order) ==
    IF order = BFS THEN "bfsTraverse" ELSE "dfsPreTraverse"

\* Mutant of Dispatch: the default case runs the last driver of the switch.
DispatchDefaultBfs(order) ==
    CASE order = DFSPre  -> "dfsPreTraverse"
      [] order = DFSPost -> "dfsPostTraverse"
      [] OTHER           -> "bfsTraverse"

\* Traverse's switch on o.Order: the driver that runs.
Dispatch(order) ==
    CASE order = DFSPre  -> "dfsPreTraverse"
      [] order = DFSPost -> "dfsPostTraverse"
      [] order = BFS     -> "bfsTraverse"
      [] OTHER           -> "dfsPreTraverse"

\* Mutant of Df: each DFS driver recurses through the other one.
DfSwapped(driver) ==
    IF driver = "dfsPreTraverse" THEN "dfsPostTraverse" ELSE "dfsPreTraverse"

\* The df argument a DFS driver hands to dfsDescend (lines 135, 139): itself.
Df(driver) == driver

\* Where a driver starts: dfsPostTraverse calls dfsDescend at once (line 139).
Entry(driver) == IF driver = "dfsPostTraverse" THEN "dfsDescend" ELSE driver

\* deque.Deque: PushBack and PopFront.
PushBack(d, x) == Append(d, x)
\* Mutant of PopFront: the deque is popped at the back.
PopBack(d) == [elem |-> d[Len(d)], rest |-> SubSeq(d, 1, Len(d) - 1)]

PopFront(d) == [elem |-> Head(d), rest |-> Tail(d)]

\* Mutant of Child: the child State keeps its parent's Depth.
ChildSameDepth(curr, node) == [Node |-> node, Depth |-> curr.Depth]

\* The State of a resolved child (lines 155-158, 193-196).
Child(curr, node) == [Node |-> node, Depth |-> curr.Depth + 1]

\* Mutant of Enqueue: the `node == nil` test is missing.
EnqueueAlways(d, curr, node) == PushBack(d, Child(curr, node))

\* bfsTraverse (lines 189-196): a skipped link enqueues nothing.
Enqueue(d, curr, node) == IF node = Nil THEN d ELSE PushBack(d, Child(curr, node))

\* Mutant of NewSeen: Traverse records the root before it picks the driver.
NewSeenWithRoot == {Root}

\* The seen map Traverse creates (line 109): empty.
NewSeen == {}

\* Mutant of SeenOf: one seen map for all Traverse calls.
SeenShared(s) == UNION {seen[x] : x \in Sessions}

\* t.seen: the seen map of the traversal struct of call s (lines 107-110).
SeenOf(s) == seen[s]

Top(s) == stack[s][Len(stack[s])]
Links(n) == graph[n]

\* ------------------------------------------------- the environment's plans
\* The k-th retrieval of a session fails or not as the plan says; the plan
\* is extended when a session is the first to make a k-th call.
GetOutcomes(s) ==
    LET k == NumOp(log[s], "GetNode") + 1
    IN  IF k <= Len(fetchPlan) THEN {fetchPlan[k]}
        ELSE IF k <= MaxFailIdx THEN BOOLEAN ELSE {FALSE}

FuncOutcomes(s) ==
    LET k == NumOp(log[s], "Func") + 1
    IN  IF k <= Len(funcPlan) THEN {funcPlan[k]}
        ELSE IF k <= MaxErrAt THEN BOOLEAN ELSE {FALSE}

Planned(plan, k, b) == IF k <= Len(plan) THEN plan ELSE Append(plan, b)

\* --------------------------------------------------------------- the steps
\* Mutant of Finish: the error is dropped on the way out.
FinishNil(s, e) ==
    /\ pc' = [pc EXCEPT ![s] = "done"]
    /\ ret' = [ret EXCEPT ![s] = NoErr]
    /\ stack' = [stack EXCEPT ![s] = << >>]

\* `return err` out of every frame: Traverse returns err.
Finish(s, e) ==
    /\ pc' = [pc EXCEPT ![s] = "done"]
    /\ ret' = [ret EXCEPT ![s] = e]
    /\ stack' = [stack EXCEPT ![s] = << >>]

\* A DFS driver returns nil to the dfsDescend loop that called it (line 159),
\* or, at the root, to Traverse.
ReturnNil(s) ==
    IF Len(stack[s]) = 1
    THEN Finish(s, NoErr)
    ELSE /\ stack' = [stack EXCEPT ![s] = SubSeq(@, 1, Len(@) - 1)]
         /\ pc' = [pc EXCEPT ![s] = "dfsDescend"]
         /\ UNCHANGED ret

\* Traverse (lines 106-127).
Traverse(s) ==
    /\ pc[s] = "Traverse"
    /\ seen' = [seen EXCEPT ![s] = NewSeen]
    /\ pc' = [pc EXCEPT ![s] = Entry(Dispatch(opts[s].Order))]
    /\ stack' = [stack EXCEPT ![s] =
                   IF Dispatch(opts[s].Order) = "bfsTraverse" THEN << >>
                   ELSE <<[Node |-> Root, Depth |-> 0, i |-> 1,
                           df |-> Dispatch(opts[s].Order)]>>]
    /\ UNCHANGED <<graph, fetchPlan, funcPlan, opts, q, ret, log>>

\* dfsPreTraverse (lines 131-136): the visitor, then dfsDescend.
DfsPreTraverse(s) ==
    /\ pc[s] = "dfsPreTraverse"
    /\ \E fails \in FuncOutcomes(s) :
         LET st == [Node |-> Top(s).Node, Depth |-> Top(s).Depth]
             e  == callFunc(st, fails)
         IN  /\ log' = [log EXCEPT ![s] = Append(@, FuncEv(st, e))]
             /\ funcPlan' = Planned(funcPlan, NumOp(log[s], "Func") + 1, fails)
             /\ IF e # NoErr
                THEN Finish(s, e)
                ELSE /\ pc' = [pc EXCEPT ![s] = "dfsDescend"]
                     /\ UNCHANGED <<stack, ret>>
    /\ UNCHANGED <<graph, fetchPlan, opts, seen, q>>

\* dfsDescend (lines 145-164): one iteration of the loop, or its end.
DfsDescend(s) ==
    /\ pc[s] = "dfsDescend"
    /\ IF Top(s).i > Len(Links(Top(s).Node))
       THEN /\ IF Top(s).df = "dfsPostTraverse"
               THEN /\ pc' = [pc EXCEPT ![s] = "dfsPostTraverse"]
                    /\ UNCHANGED <<stack, ret>>
               ELSE ReturnNil(s)
            /\ UNCHANGED <<fetchPlan, seen, log>>
       ELSE /\ NumOp(log[s], "GetNode") < MaxCalls
            /\ \E fails \in GetOutcomes(s) :
                 LET l == Links(Top(s).Node)[Top(s).i]
                     r == getNode(opts[s], SeenOf(s), l, fails)
                     n == Len(stack[s])
                 IN  /\ fetchPlan' = Planned(fetchPlan, NumOp(log[s], "GetNode") + 1, fails)
                     /\ seen' = [seen EXCEPT ![s] = r.seen]
                     /\ log' = [log EXCEPT ![s] = @ \o OfLink(r.ev, Top(s))]
                     /\ IF r.err # NoErr
                        THEN Finish(s, r.err)
                        ELSE IF r.next = Nil
                        THEN /\ stack' = [stack EXCEPT ![s][n].i = @ + 1]
                             /\ UNCHANGED <<pc, ret>>
                        ELSE /\ stack' = [stack EXCEPT ![s] =
                                   Append([@ EXCEPT ![n].i = @ + 1],
                                          [Node  |-> Child(Top(s), r.next).Node,
                                           Depth |-> Child(Top(s), r.next).Depth,
                                           i |-> 1, df |-> Df(Top(s).df)])]
                             /\ pc' = [pc EXCEPT ![s] = Entry(Df(Top(s).df))]
                             /\ UNCHANGED ret
    /\ UNCHANGED <<graph, funcPlan, opts, q>>

\* dfsPostTraverse (lines 138-143) after dfsDescend returned nil: the visitor.
DfsPostTraverse(s) ==
    /\ pc[s] = "dfsPostTraverse"
    /\ \E fails \in FuncOutcomes(s) :
         LET st == [Node |-> Top(s).Node, Depth |-> Top(s).Depth]
             e  == callFunc(st, fails)
         IN  /\ log' = [log EXCEPT ![s] = Append(@, FuncEv(st, e))]
             /\ funcPlan' = Planned(funcPlan, NumOp(log[s], "Func") + 1, fails)
             /\ IF e # NoErr THEN Finish(s, e) ELSE ReturnNil(s)
    /\ UNCHANGED <<graph, fetchPlan, opts, seen, q>>

\* bfsTraverse (lines 166-172): the root's duplicate check, then the queue.
BfsTraverse(s) ==
    /\ pc[s] = "bfsTraverse"
    /\ LET sk == shouldSkip(opts[s], SeenOf(s), Root)
       IN  /\ seen' = [seen EXCEPT ![s] = sk.seen]
           /\ log' = [log EXCEPT ![s] = @ \o sk.ev]
           /\ IF sk.skip
              THEN /\ Finish(s, NoErr)
                   /\ UNCHANGED q
              ELSE /\ q' = [q EXCEPT ![s] = PushBack(@, [Node |-> Root, Depth |-> 0])]
                   /\ pc' = [pc EXCEPT ![s] = "bfsLoop"]
                   /\ UNCHANGED <<stack, ret>>
    /\ UNCHANGED <<graph, fetchPlan, funcPlan, opts>>

\* bfsTraverse (lines 173-182): the loop test, PopFront, the visitor.
BfsLoop(s) ==
    /\ pc[s] = "bfsLoop"
    /\ IF Len(q[s]) = 0
       THEN /\ Finish(s, NoErr)
            /\ UNCHANGED <<q, log, funcPlan>>
       ELSE LET c == PopFront(q[s]).elem
            IN  /\ q' = [q EXCEPT ![s] = PopFront(@).rest]
                /\ IF c.Node = Nil
                   THEN /\ Finish(s, ErrDequeue)
                        /\ UNCHANGED <<log, funcPlan>>
                   ELSE \E fails \in FuncOutcomes(s) :
                          LET e == callFunc(c, fails)
                          IN  /\ log' = [log EXCEPT ![s] = Append(@, FuncEv(c, e))]
                              /\ funcPlan' = Planned(funcPlan, NumOp(log[s], "Func") + 1, fails)
                              /\ IF e # NoErr
                                 THEN Finish(s, e)
                                 ELSE /\ stack' = [stack EXCEPT ![s] =
                                            <<[Node |-> c.Node, Depth |-> c.Depth, i |-> 1,
                                              df |-> "bfsTraverse"]>>]
                                      /\ pc' = [pc EXCEPT ![s] = "bfsLinks"]
                                      /\ UNCHANGED ret
    /\ UNCHANGED <<graph, fetchPlan, opts, seen>>

\* bfsTraverse (lines 184-197): one iteration of the loop over curr's links.
BfsLinks(s) ==
    /\ pc[s] = "bfsLinks"
    /\ IF Top(s).i > Len(Links(Top(s).Node))
       THEN /\ pc' = [pc EXCEPT ![s] = "bfsLoop"]
            /\ stack' = [stack EXCEPT ![s] = << >>]
            /\ UNCHANGED <<fetchPlan, seen, log, q, ret>>
       ELSE /\ NumOp(log[s], "GetNode") < MaxCalls
            /\ \E fails \in GetOutcomes(s) :
                 LET l == Links(Top(s).Node)[Top(s).i]
                     r == getNode(opts[s], SeenOf(s), l, fails)
                 IN  /\ fetchPlan' = Planned(fetchPlan, NumOp(log[s], "GetNode") + 1, fails)
                     /\ seen' = [seen EXCEPT ![s] = r.seen]
                     /\ log' = [log EXCEPT ![s] = @ \o OfLink(r.ev, Top(s))]
                     /\ IF r.err # NoErr
                        THEN /\ Finish(s, r.err)
                             /\ UNCHANGED q
                        ELSE /\ stack' = [stack EXCEPT ![s][1].i = @ + 1]
                             /\ q' = [q EXCEPT ![s] = Enqueue(@, Top(s), r.next)]
                             /\ UNCHANGED <<pc, ret>>
    /\ UNCHANGED <<graph, funcPlan, opts>>

\* ------------------------------------------------------- the specification
InitEnv ==
    /\ graph \in Graphs
    /\ fetchPlan = << >>
    /\ funcPlan = << >>
    /\ seen = [s \in Sessions |-> {}]
    /\ stack = [s \in Sessions |-> << >>]
    /\ q = [s \in Sessions |-> << >>]
    /\ ret = [s \in Sessions |-> NoErr]
    /\ log = [s \in Sessions |-> << >>]

\* One Traverse call.
Init ==
    /\ InitEnv
    /\ \E o \in Options : opts = [s \in Sessions |-> o]
    /\ pc = [s \in Sessions |-> IF s = 1 THEN "Traverse" ELSE "idle"]

Next ==
    \E s \in Sessions :
        \/ Traverse(s)
        \/ DfsPreTraverse(s)
        \/ DfsDescend(s)
        \/ DfsPostTraverse(s)
        \/ BfsTraverse(s)
        \/ BfsLoop(s)
        \/ BfsLinks(s)

Spec == Init /\ [][Next]_vars

\* The same call, never suspended: Traverse runs synchronously on the
\* caller's goroutine, so a step that can be taken is taken.
FairSpec == Init /\ [][Next]_vars /\ WF_vars(Next)

\* The Options a second call is given next to a call with Options o: the
\* same ones, or the identity ErrFunc in place of none, or an Order outside
\* the three constants in place of DFSPre.
Variants(o) ==
    (IF o.ErrFunc = ErrFuncNil THEN {o, [o EXCEPT !.ErrFunc = ErrFuncSame]} ELSE {})
    \cup (IF o.Order = DFSPre THEN {[o EXCEPT !.Order = 3]} ELSE {})

\* Two Traverse calls over the same store, interleaved: the same root, visitor
\* and store behaviour, and Options that are equal or differ in one field.
InitPair ==
    /\ InitEnv
    /\ \E o \in Options : \E v \in Variants(o) :
         /\ o.Order \in {DFSPre, DFSPost, BFS}
         /\ o.ErrFunc \in {ErrFuncNil, ErrFuncSkip}
         /\ opts = [s \in Sessions |-> IF s = 1 THEN o ELSE v]
    /\ pc = [s \in Sessions |-> "Traverse"]

SpecPair == InitPair /\ [][Next]_vars

\* ------------------------------------------------------------ graph theory
Range(f) == {f[i] : i \in DOMAIN f}

Succ(S) == UNION {Range(graph[n]) : n \in S}

RECURSIVE Closure(_)
Closure(S) == IF Succ(S) \subseteq S THEN S ELSE Closure(S \cup Succ(S))

\* The nodes reachable from n over one link or more.
Descendants(n) == Closure(Succ({n}))

Reachable == {Root} \cup Descendants(Root)

IsDAG == \A n \in Nodes : n \notin Descendants(n)

\* ------------------------------------------------------- reading the log
Done(s) == pc[s] = "done"

\* The Visit States handed to the visitor, in order.
Visits(s) ==
    LET f == OfOp(log[s], "Func")
    IN  [i \in 1..Len(f) |-> [Node |-> f[i].node, Depth |-> f[i].depth]]

\* How many entries of l after position i satisfy Test.
CountAfter(l, i, Test(_)) == Cardinality({j \in (i + 1)..Len(l) : Test(l[j])})

IsFunc(e, n) == e.op = "Func" /\ e.node = n
IsGet(e, n) == e.op = "GetNode" /\ e.node = n
IsSeen(e, n) == e.op = "Seen" /\ e.node = n

NoFetchFailed(s) == \A i \in 1..Len(log[s]) : log[s][i].op = "GetNode" => log[s][i].err = NoErr
NoVisitorError(s) == \A i \in 1..Len(log[s]) : log[s][i].op = "Func" => log[s][i].err = NoErr

IsPrefix(a, b) == Len(a) <= Len(b) /\ \A i \in 1..Len(a) : a[i] = b[i]

\* ------------------------------------------------------------------ claims

\* C1: with SkipDuplicates, in every order and on every finite graph, each
\* node identifier is passed to the visitor at most once, so the visitor is
\* called at most as many times as there are nodes reachable from the root.
C1_VisitedAtMostOnce ==
    \A s \in Sessions :
        opts[s].SkipDuplicates =>
            /\ \A n \in Nodes :
                 CountAfter(log[s], 0, LAMBDA e : IsFunc(e, n)) <= 1
            /\ NumOp(log[s], "Func") <= Cardinality(Reachable)

DfsRootVisit(s, e) == e.op = "Func" /\ e.depth = 0 /\ opts[s].Order # BFS

RECURSIVE PreOrder(_, _), PreOrderEach(_, _)
PreOrder(n, d) == <<[Node |-> n, Depth |-> d]>> \o PreOrderEach(graph[n], d + 1)
PreOrderEach(ls, d) ==
    IF Len(ls) = 0 THEN << >> ELSE PreOrder(Head(ls), d) \o PreOrderEach(Tail(ls), d)

RECURSIVE PostOrder(_, _), PostOrderEach(_, _)
PostOrder(n, d) == PostOrderEach(graph[n], d + 1) \o <<[Node |-> n, Depth |-> d]>>
PostOrderEach(ls, d) ==
    IF Len(ls) = 0 THEN << >> ELSE PostOrder(Head(ls), d) \o PostOrderEach(Tail(ls), d)

\* The level-by-level listing: a level, then the children of its nodes.
RECURSIVE ChildrenOf(_), LevelOrder(_, _)
ChildrenOf(level) ==
    IF Len(level) = 0 THEN << >> ELSE graph[Head(level)] \o ChildrenOf(Tail(level))
LevelOrder(level, d) ==
    IF Len(level) = 0 THEN << >>
    ELSE [i \in 1..Len(level) |-> [Node |-> level[i], Depth |-> d]]
         \o LevelOrder(ChildrenOf(level), d + 1)

Plain(s) ==
    /\ ~opts[s].SkipDuplicates
    /\ IsDAG
    /\ NoFetchFailed(s)
    /\ NoVisitorError(s)

\* C3: on a DAG, without suppression, fetch failure or visitor error, pre-order
\* DFS calls the visitor in the pre-order listing of the unfolding from the
\* root (a node before its descendants, children in link order) and returns nil.
C3_PreOrder ==
    \A s \in Sessions :
        (opts[s].Order = DFSPre /\ Plain(s)) =>
            /\ IsPrefix(Visits(s), PreOrder(Root, 0))
            /\ Done(s) => (Visits(s) = PreOrder(Root, 0) /\ ret[s] = NoErr)

\* R->[A,B], A->[C] was walked R, A, C, B.
C3_Witness ==
    /\ Done(1) /\ opts[1].Order = DFSPre /\ Plain(1)
    /\ Visits(1) = <<[Node |-> 1, Depth |-> 0], [Node |-> 2, Depth |-> 1],
                     [Node |-> 4, Depth |-> 2], [Node |-> 3, Depth |-> 1]>>

\* C4: on a DAG, without suppression, fetch failure or visitor error, post-order
\* DFS calls the visitor in the post-order listing of the unfolding from the
\* root (a node after its descendants, children in link order, the root last)
\* and returns nil.
C4_PostOrder ==
    \A s \in Sessions :
        (opts[s].Order = DFSPost /\ Plain(s)) =>
            /\ IsPrefix(Visits(s), PostOrder(Root, 0))
            /\ Done(s) => /\ Visits(s) = PostOrder(Root, 0)
                          /\ Visits(s)[Len(Visits(s))] = [Node |-> Root, Depth |-> 0]
                          /\ ret[s] = NoErr

\* R->[A,B], A->[C] was walked C, A, B, R.
C4_Witness ==
    /\ Done(1) /\ opts[1].Order = DFSPost /\ Plain(1)
    /\ Visits(1) = <<[Node |-> 4, Depth |-> 2], [Node |-> 2, Depth |-> 1],
                     [Node |-> 3, Depth |-> 1], [Node |-> 1, Depth |-> 0]>>

\* The k-th smallest element of a set of numbers.
Nth(S, k) == CHOOSE i \in S : Cardinality({j \in S : j <= i}) = k

\* The positions in the log of the link resolutions that returned a node to
\* the driver: they succeeded and, under suppression, recorded the identifier.
ScheduledAt(s) ==
    {i \in 1..Len(log[s]) :
        /\ log[s][i].op = "GetNode" /\ log[s][i].err = NoErr
        /\ opts[s].SkipDuplicates =>
              (i < Len(log[s]) /\ log[s][i + 1].op = "Seen")}

\* The Visit States those resolutions produced, in order.
Scheduled(s) ==
    [k \in 1..Cardinality(ScheduledAt(s)) |->
        [Node  |-> log[s][Nth(ScheduledAt(s), k)].node,
         Depth |-> log[s][Nth(ScheduledAt(s), k)].depth]]

\* The link resolutions made between the k-th visit and the next.
FuncAt(s) == {i \in 1..Len(log[s]) : log[s][i].op = "Func"}
ResolvedAfterVisit(s, k) ==
    LET from == Nth(FuncAt(s), k)
        to   == IF k < Cardinality(FuncAt(s)) THEN Nth(FuncAt(s), k + 1)
                ELSE Len(log[s]) + 1
        gets == {i \in (from + 1)..(to - 1) : log[s][i].op = "GetNode"}
    IN  [j \in 1..Cardinality(gets) |-> log[s][Nth(gets, j)]]

\* C5: in BFS the Depths handed to the visitor never decrease; the visits are
\* the root and then the enqueued nodes in the order of their enqueueing, the
\* links of each visited node being resolved in link order before the next
\* visit; on a DAG without suppression or failure that is the level-by-level
\* listing.
C5_BfsOrder ==
    \A s \in Sessions :
        opts[s].Order = BFS =>
            /\ \A i, j \in 1..Len(Visits(s)) :
                 i < j => Visits(s)[i].Depth <= Visits(s)[j].Depth
            /\ IsPrefix(Visits(s), <<[Node |-> Root, Depth |-> 0]>> \o Scheduled(s))
            /\ \A k \in 1..Len(Visits(s)) :
                 LET got == ResolvedAfterVisit(s, k)
                     v   == Visits(s)[k]
                 IN  /\ Len(got) <= Len(graph[v.Node])
                     /\ \A j \in 1..Len(got) :
                          /\ got[j].from = v.Node /\ got[j].idx = j
                          /\ got[j].node = graph[v.Node][j]
                          /\ got[j].depth = v.Depth + 1
                     /\ (k < Len(Visits(s)) \/ (Done(s) /\ ret[s] = NoErr)) =>
                            Len(got) = Len(graph[v.Node])
            /\ (Done(s) /\ ret[s] = NoErr) =>
                 Visits(s) = <<[Node |-> Root, Depth |-> 0]>> \o Scheduled(s)
            /\ Plain(s) =>
                 /\ IsPrefix(Visits(s), LevelOrder(<<Root>>, 0))
                 /\ Done(s) => Visits(s) = LevelOrder(<<Root>>, 0)

\* R->[A,B], A->[C] was walked R, A, B, C.
C5_Witness ==
    /\ Done(1) /\ opts[1].Order = BFS /\ Plain(1)
    /\ Visits(1) = <<[Node |-> 1, Depth |-> 0], [Node |-> 2, Depth |-> 1],
                     [Node |-> 3, Depth |-> 1], [Node |-> 4, Depth |-> 2]>>

\* C6: when the visitor returns an error at its k-th call, that call is the
\* last thing the traversal does (k visitor calls in all, no link resolved
\* afterwards) and Traverse returns that very error.
C6_VisitorErrorAborts ==
    \A s \in Sessions : \A i \in 1..Len(log[s]) :
        (log[s][i].op = "Func" /\ log[s][i].err # NoErr) =>
            /\ i = Len(log[s])
            /\ Done(s)
            /\ ret[s] = log[s][i].err

\* The visitor failed at its second call, with nodes left to visit.
C6_Witness ==
    /\ Done(1) /\ ret[1] = ErrVisitor
    /\ NumOp(log[1], "Func") = 2
    /\ log[1][Len(log[1])].err = ErrVisitor
    /\ Cardinality(Reachable) > 2

\* The frames open when link resolution i is made (the node holding the link
\* and its ancestors on the path) have not been handed to the visitor: no
\* visit at Depth d since the resolution that opened the frame of Depth d.
OpenedAt(s, i, d) ==
    IF d = 0 THEN 0
    ELSE Max({k \in 1..(i - 1) : log[s][k].op = "GetNode" /\ log[s][k].depth = d})

PathUnvisited(s, i) ==
    \A d \in 0..(log[s][i].depth - 1) :
        CountAfter(log[s], OpenedAt(s, i, d), LAMBDA e : e.op = "Func" /\ e.depth = d) = 0

\* The States waiting in the BFS deque are the enqueued ones not yet visited.
QueueIsUnvisited(s) ==
    Visits(s) \o q[s] = <<[Node |-> Root, Depth |-> 0]>> \o Scheduled(s)

\* C7: without an ErrFunc, a failed link resolution is the last thing the
\* traversal does and Traverse returns the retrieval error; in post-order the
\* node holding the link and its ancestors are never visited, in BFS the
\* nodes waiting in the deque are never visited.
C7_FetchFailureAborts ==
    \A s \in Sessions : \A i \in 1..Len(log[s]) :
        (opts[s].ErrFunc.isNil /\ log[s][i].op = "GetNode" /\ log[s][i].err # NoErr) =>
            /\ i = Len(log[s])
            /\ Done(s)
            /\ ret[s] = ErrNotFound
            /\ opts[s].Order = DFSPost => PathUnvisited(s, i)
            /\ opts[s].Order = BFS => QueueIsUnvisited(s)

\* A BFS stopped by a failed resolution with a node waiting in the deque.
C7_Witness ==
    /\ Done(1) /\ ret[1] = ErrNotFound
    /\ opts[1].ErrFunc.isNil /\ opts[1].Order = BFS
    /\ NumOp(log[1], "Func") >= 1
    /\ Len(q[1]) >= 1

\* How many visits, and how many returned resolutions, of node n at Depth d.
NumVisits(s, n, d) ==
    CountAfter(log[s], 0, LAMBDA e : IsFunc(e, n) /\ e.depth = d)
NumScheduled(s, n, d) ==
    Cardinality({i \in ScheduledAt(s) : log[s][i].node = n /\ log[s][i].depth = d})

\* The (node, Depth) pairs the log of a session mentions, and the root's.
Pairs(s) == {<<Root, 0>>} \cup {<<log[s][i].node, log[s][i].depth>> : i \in 1..Len(log[s])}

RECURSIVE SumLinks(_)
SumLinks(vs) == IF Len(vs) = 0 THEN 0 ELSE Len(graph[Head(vs).Node]) + SumLinks(Tail(vs))

\* C8: with an ErrFunc that returns nil, a failed link resolution is handed
\* to ErrFunc once and yields no node: nothing is visited or descended into
\* through that link (every visit but the root's answers one resolution that
\* returned a node), the traversal goes on with the next link of the same
\* node, and a traversal in which the visitor never fails resolves every link
\* of every visited node and returns nil.
C8_RecoveredFailureSkips ==
    \A s \in Sessions :
        opts[s].ErrFunc = ErrFuncSkip =>
            /\ \A i \in 1..Len(log[s]) :
                 (log[s][i].op = "GetNode" /\ log[s][i].err # NoErr) =>
                     /\ i < Len(log[s])
                     /\ log[s][i + 1] = [log[s][i] EXCEPT !.op = "ErrFunc", !.err = NoErr]
                     /\ (i + 2 <= Len(log[s]) /\ log[s][i].idx < Len(graph[log[s][i].from])) =>
                            log[s][i + 2] =
                                [log[s][i] EXCEPT
                                    !.idx = @ + 1,
                                    !.node = graph[log[s][i].from][log[s][i].idx + 1],
                                    !.err = log[s][i + 2].err]
            /\ \A p \in Pairs(s) :
                 NumVisits(s, p[1], p[2]) <=
                     NumScheduled(s, p[1], p[2]) + (IF p = <<Root, 0>> THEN 1 ELSE 0)
            /\ Done(s) => ret[s] \in {NoErr, ErrVisitor}
            /\ (Done(s) /\ NoVisitorError(s)) =>
                 /\ ret[s] = NoErr
                 /\ \A p \in Pairs(s) :
                      NumVisits(s, p[1], p[2]) =
                          NumScheduled(s, p[1], p[2]) + (IF p = <<Root, 0>> THEN 1 ELSE 0)
                 /\ NumOp(log[s], "GetNode") = SumLinks(Visits(s))

\* A traversal returned nil after a failed resolution was skipped and a later
\* link was followed to a visit.
C8_Witness ==
    /\ Done(1) /\ ret[1] = NoErr /\ opts[1].ErrFunc = ErrFuncSkip
    /\ \E i \in 1..Len(log[1]) :
         /\ log[1][i].op = "GetNode" /\ log[1][i].err # NoErr
         /\ \E j \in ScheduledAt(1) : j > i
         /\ CountAfter(log[1], i, LAMBDA e : e.op = "Func") >= 1

\* C9: when ErrFunc returns a non-nil error, that call is the last thing the
\* traversal does and Traverse returns exactly what ErrFunc returned, not the
\* retrieval error it was given.
C9_EscalatedErrorAborts ==
    \A s \in Sessions : \A i \in 1..Len(log[s]) :
        (log[s][i].op = "ErrFunc" /\ log[s][i].err # NoErr) =>
            /\ i = Len(log[s])
            /\ Done(s)
            /\ i > 1 /\ log[s][i - 1].op = "GetNode" /\ log[s][i - 1].err = ErrNotFound
            /\ ret[s] = opts[s].ErrFunc.f[log[s][i - 1].err]
            /\ opts[s].ErrFunc = ErrFuncOther => ret[s] = ErrEscalated

\* ErrFunc turned a retrieval error into another error, which Traverse returned.
C9_Witness ==
    /\ Done(1) /\ ret[1] = ErrEscalated /\ opts[1].ErrFunc = ErrFuncOther
    /\ NumOp(log[1], "Func") >= 1
    /\ NumOp(log[1], "ErrFunc") = 1
    /\ log[1][Len(log[1])].op = "ErrFunc"

\* The calls a session made on the visitor and on the retrieval capability,
\* with their arguments and results.
Calls(s, op) == OfOp(log[s], op)

Comparable(a, b) == IsPrefix(a, b) \/ IsPrefix(b, a)

\* C10: a Traverse call without ErrFunc and the same call with the ErrFunc
\* that returns the error it is given make the same visitor calls and the
\* same retrieval calls and return the same error.
C10_NilErrFuncIsIdentity ==
    \A a, b \in Sessions :
        (/\ opts[a].ErrFunc = ErrFuncNil
         /\ opts[b] = [opts[a] EXCEPT !.ErrFunc = ErrFuncSame]
         /\ pc[a] # "idle" /\ pc[b] # "idle") =>
            /\ Comparable(Calls(a, "Func"), Calls(b, "Func"))
            /\ Comparable(Calls(a, "GetNode"), Calls(b, "GetNode"))
            /\ (Done(a) /\ Done(b)) =>
                 /\ Calls(a, "Func") = Calls(b, "Func")
                 /\ Calls(a, "GetNode") = Calls(b, "GetNode")
                 /\ ret[a] = ret[b]

\* Both calls were stopped by the same failed retrieval after a visit, the
\* second one through its ErrFunc.
C10_Witness ==
    /\ opts[1].ErrFunc = ErrFuncNil /\ opts[2].ErrFunc = ErrFuncSame
    /\ Done(1) /\ Done(2)
    /\ ret[1] = ErrNotFound /\ ret[2] = ErrNotFound
    /\ NumOp(log[1], "Func") >= 1
    /\ NumOp(log[2], "ErrFunc") = 1 /\ NumOp(log[1], "ErrFunc") = 0


\* ---------------------------------------------------------------- C11
\* The number of link paths from n to t in a graph without cycles (the empty
\* path counts when n = t).
RECURSIVE NumPaths(_, _)
RECURSIVE NumPathsFrom(_, _, _)
NumPathsFrom(n, i, t) ==
    IF i > Len(graph[n]) THEN 0
    ELSE NumPaths(graph[n][i], t) + NumPathsFrom(n, i + 1, t)

NumPaths(n, t) == IF n = t THEN 1 ELSE NumPathsFrom(n, 1, t)

\* The number of visitor calls on n in the log of call s.
TimesVisited(s, n) == Len(SelectSeq(log[s], LAMBDA e : e.op = "Func" /\ e.node = n))

\* The root with two links to the same childless node X (= 2).
TwoLinksToX == graph[Root] = <<2, 2>> /\ graph[2] = << >>

\* C11: without SkipDuplicates a completed traversal of a graph without
\* cycles, no fetch failing and the visitor never failing, has visited every
\* node once per link path from the root, in every Order; the root with two
\* links to X visits X twice without SkipDuplicates and once with it.
C11_OncePerPath ==
    \A s \in Sessions :
        (Done(s) /\ NoFetchFailed(s) /\ NoVisitorError(s)) =>
            /\ (~opts[s].SkipDuplicates /\ IsDAG) =>
                   \A n \in Nodes : TimesVisited(s, n) = NumPaths(Root, n)
            /\ TwoLinksToX =>
                   TimesVisited(s, 2) = IF opts[s].SkipDuplicates THEN 1 ELSE 2

\* X has been visited twice through the two links of the root.
C11_Witness ==
    /\ Done(1) /\ ret[1] = NoErr /\ ~opts[1].SkipDuplicates
    /\ TwoLinksToX /\ NoFetchFailed(1)
    /\ TimesVisited(1, 2) = 2


\* ---------------------------------------------------------------- C12
\* The identifiers call s has recorded, by its own log.
Recorded(s) == {log[s][i].node : i \in {j \in DOMAIN log[s] : log[s][j].op = "Seen"}}

\* C12: two Traverse calls with equal Options interleaved over the same graph
\* and store behaviour do not affect each other: the seen set of a call holds
\* what that call recorded and nothing else, the two logs agree as far as
\* they go under every interleaving (one call may run alone, before or after
\* the other), and at return the visitor sequences, the results and the seen
\* sets are equal.
C12_CallsAreIndependent ==
    \A a, b \in Sessions :
        (opts[a] = opts[b] /\ pc[a] # "idle" /\ pc[b] # "idle") =>
            /\ pc[a] # "Traverse" => seen[a] = Recorded(a)
            /\ Comparable(log[a], log[b])
            /\ (Done(a) /\ Done(b)) =>
                 /\ Visits(a) = Visits(b)
                 /\ log[a] = log[b]
                 /\ ret[a] = ret[b]
                 /\ seen[a] = seen[b]

\* Both calls have returned, each having recorded and visited the same
\* non-root node under SkipDuplicates.
C12_Witness ==
    /\ opts[1] = opts[2] /\ opts[1].SkipDuplicates
    /\ Done(1) /\ Done(2) /\ ret[1] = NoErr /\ ret[2] = NoErr
    /\ \E n \in Nodes \ {Root} :
         /\ n \in seen[1] /\ n \in seen[2]
         /\ TimesVisited(1, n) = 1 /\ TimesVisited(2, n) = 1

\* ---------------------------------------------------------------- C13
\* C13: a Traverse call whose Order is none of DFSPre, DFSPost and BFS and the
\* same call with Order DFSPre make the same visitor calls with the same
\* Depth values, the same retrieval and ErrFunc calls, and return the same
\* result.
C13_UnknownOrderIsPreOrder ==
    \A a, b \in Sessions :
        (/\ opts[a].Order = DFSPre
         /\ opts[b].Order \notin {DFSPre, DFSPost, BFS}
         /\ opts[b] = [opts[a] EXCEPT !.Order = opts[b].Order]
         /\ pc[a] # "idle" /\ pc[b] # "idle") =>
            /\ Comparable(log[a], log[b])
            /\ (Done(a) /\ Done(b)) =>
                 /\ Visits(a) = Visits(b)
                 /\ log[a] = log[b]
                 /\ ret[a] = ret[b]

\* Both calls have returned after visiting a node below the root's child, in
\* the same sequence.
C13_Witness ==
    /\ opts[1].Order = DFSPre /\ opts[2].Order = 3
    /\ Done(1) /\ Done(2) /\ ret[1] = NoErr /\ ret[2] = NoErr
    /\ Len(Visits(2)) >= 3 /\ Visits(1) = Visits(2)
    /\ \E i \in DOMAIN Visits(2) : Visits(2)[i].Depth = 2


\* ---------------------------------------------------------------- C14
\* The nodes at the end of a path of exactly d links from the root.
RECURSIVE WalkEnds(_)
WalkEnds(d) == IF d = 0 THEN {Root} ELSE Succ(WalkEnds(d - 1))

\* Position u of the log of s is a visit of node n at Depth d.
IsVisitAt(s, u, n, d) ==
    log[s][u].op = "Func" /\ log[s][u].node = n /\ log[s][u].depth = d

\* The visit at position v of the log of s, at a Depth above 0, belongs to the
\* link resolution at position j: the link is held by a node whose own visit
\* is at Depth one less (before the resolution in pre-order and BFS; after
\* the child's visit in post-order, where a completed traversal has it).
IsChildVisit(s, v, j) ==
    LET e == log[s][v]
        g == log[s][j]
    IN  /\ j \in ScheduledAt(s) /\ j < v
        /\ g.node = e.node /\ g.depth = e.depth
        /\ g.idx \in DOMAIN graph[g.from] /\ graph[g.from][g.idx] = e.node
        /\ IF Dispatch(opts[s].Order) = "dfsPostTraverse"
           THEN /\ \A u \in j..v : ~IsVisitAt(s, u, g.from, e.depth - 1)
                /\ (Done(s) /\ ret[s] = NoErr) =>
                      \E u \in (v + 1)..Len(log[s]) : IsVisitAt(s, u, g.from, e.depth - 1)
           ELSE \E u \in 1..(j - 1) : IsVisitAt(s, u, g.from, e.depth - 1)

\* C14: every visit at Depth 0 is the visit of the root Traverse was called
\* with, and there is one at most; every other visit has the Depth of the
\* visit of the node holding the link it came through plus one, which is the
\* number of links on a path from the root; in all orders, with or without
\* SkipDuplicates.
C14_DepthIsPathLength ==
    \A s \in Sessions : \A v \in 1..Len(log[s]) :
        log[s][v].op = "Func" =>
            /\ log[s][v].depth >= 0
            /\ log[s][v].node \in WalkEnds(log[s][v].depth)
            /\ log[s][v].depth = 0 =>
                 /\ log[s][v].node = Root
                 /\ \A u \in 1..Len(log[s]) : IsVisitAt(s, u, Root, 0) => u = v
                 /\ Dispatch(opts[s].Order) # "dfsPostTraverse" => v = Nth(FuncAt(s), 1)
                 /\ Dispatch(opts[s].Order) = "dfsPostTraverse" => v = Len(log[s])
            /\ log[s][v].depth > 0 =>
                 \E j \in 1..(v - 1) : IsChildVisit(s, v, j)

\* A node three links below the root has been visited at Depth 3, in a
\* completed traversal under SkipDuplicates.
C14_Witness ==
    /\ Done(1) /\ ret[1] = NoErr /\ opts[1].SkipDuplicates
    /\ \E v \in 1..Len(log[1]) :
         /\ log[1][v].op = "Func" /\ log[1][v].depth = 3
         /\ \E j \in 1..(v - 1) : IsChildVisit(1, v, j)


\* ---------------------------------------------------------------- C15
\* C15: every State held in the BFS deque carries a node (the root is not
\* nil), so that no Traverse call returns the error "failed to dequeue though
\* queue not empty".
C15_QueueHoldsNodes ==
    \A s \in Sessions :
        /\ \A i \in 1..Len(q[s]) : q[s][i].Node # Nil /\ q[s][i].Node \in Nodes
        /\ ret[s] # ErrDequeue
        /\ \A i \in 1..Len(log[s]) : log[s][i].op = "Func" => log[s][i].node # Nil

\* A BFS whose getNode has returned nil for a link (a failure its ErrFunc
\* dropped) with a State waiting in the deque, the deque having been popped
\* since.
C15_Witness ==
    /\ opts[1].Order = BFS /\ opts[1].ErrFunc = ErrFuncSkip
    /\ \E i \in 1..Len(log[1]) : log[1][i].op = "GetNode" /\ log[1][i].err # NoErr
    /\ Len(q[1]) >= 1
    /\ NumOp(log[1], "Func") >= 2


\* ---------------------------------------------------------------- C16
\* C16: a Traverse call with SkipDuplicates returns on every graph, cycles
\* and links back to the root included, and a call without it returns on
\* every graph without cycles, in every order and whatever fails.
C16_Terminates ==
    \A s \in {1} : (opts[s].SkipDuplicates \/ IsDAG) ~> Done(s)

\* A call with SkipDuplicates has returned nil from a graph in which the
\* root is reachable from itself, every link resolved.
C16_Witness ==
    /\ Done(1) /\ ret[1] = NoErr /\ opts[1].SkipDuplicates
    /\ Root \in Descendants(Root)
    /\ NumOp(log[1], "GetNode") >= MaxEdges
    /\ NoFetchFailed(1)


\* ---------------------------------------------------------------- C17
\* Position i of the log of s records an identifier for a link that has just
\* been resolved to it.
RecordedForLink(s, i) ==
    /\ i > 1
    /\ log[s][i - 1].op = "GetNode" /\ log[s][i - 1].err = NoErr
    /\ log[s][i - 1].node = log[s][i].node
    /\ log[s][i].from # Nil /\ log[s][i].from = log[s][i - 1].from
    /\ log[s][i].idx = log[s][i - 1].idx

\* C17: the seen set changes only by recording. BFS records the root before
\* anything else and then visits it; the DFS orders visit the root at Depth 0
\* without recording it, whether or not it has been recorded for a link by
\* then (pre-order visits it first, post-order last). Every other recording
\* is made for a link, right after its resolution succeeded.
C17_RootCheckIsAsymmetric ==
    \A s \in Sessions :
        (pc[s] \notin {"idle", "Traverse"}) =>
            /\ seen[s] = Recorded(s)
            /\ ~opts[s].SkipDuplicates => seen[s] = {}
            /\ \A i \in 1..Len(log[s]) :
                 log[s][i].op = "Seen" =>
                    \/ RecordedForLink(s, i)
                    \/ /\ Dispatch(opts[s].Order) = "bfsTraverse"
                       /\ i = 1 /\ log[s][i].node = Root /\ log[s][i].from = Nil
            /\ (opts[s].SkipDuplicates /\ Dispatch(opts[s].Order) = "bfsTraverse"
                  /\ pc[s] # "bfsTraverse") =>
                 /\ Root \in seen[s]
                 /\ log[s][1] = SeenEv(Root)
                 /\ Len(log[s]) >= 2 => IsVisitAt(s, 2, Root, 0)
                 /\ Done(s) => Len(log[s]) >= 2
            /\ (Dispatch(opts[s].Order) = "dfsPreTraverse" /\ pc[s] # "dfsPreTraverse") =>
                 IsVisitAt(s, 1, Root, 0)
            /\ (Dispatch(opts[s].Order) = "dfsPostTraverse" /\ Done(s) /\ ret[s] = NoErr) =>
                 IsVisitAt(s, Len(log[s]), Root, 0)

\* A post-order call under SkipDuplicates has visited the root at Depth 0
\* after the root had been recorded, and visited, for a link leading back to
\* it.
C17_Witness ==
    /\ Done(1) /\ ret[1] = NoErr /\ opts[1].SkipDuplicates
    /\ opts[1].Order = DFSPost
    /\ Root \in seen[1]
    /\ TimesVisited(1, Root) = 2
    /\ IsVisitAt(1, Len(log[1]), Root, 0)


\* ---------------------------------------------------------------- C18
\* The identifiers handed to the visitor by call s.
Visited(s) == {log[s][i].node : i \in {j \in DOMAIN log[s] : log[s][j].op = "Func"}}

\* C18: under SkipDuplicates only nodes reachable from the root are visited,
\* and a call in which no fetch failed and the visitor never failed returns
\* nil having visited exactly the nodes reachable from the root, in each of
\* the orders.
C18_VisitsTheReachableSet ==
    \A s \in Sessions :
        opts[s].SkipDuplicates =>
            /\ Visited(s) \subseteq Reachable
            /\ (Done(s) /\ NoFetchFailed(s) /\ NoVisitorError(s)) =>
                 /\ ret[s] = NoErr
                 /\ Visited(s) = Reachable

\* A completed call on a graph with a cycle and three reachable nodes, all of
\* them visited.
C18_Witness ==
    /\ Done(1) /\ ret[1] = NoErr /\ opts[1].SkipDuplicates
    /\ NoFetchFailed(1) /\ NoVisitorError(1)
    /\ ~IsDAG /\ Cardinality(Reachable) >= 3
    /\ Visited(1) = Reachable


\* ---------------------------------------------------------------- C19
\* The link a resolution or an ErrFunc call in the log is about: its holder,
\* its position among the holder's links, the Depth of its target.
LinkOf(e) == <<e.from, e.idx, e.depth, e.node>>

FailedAt(s) == {i \in 1..Len(log[s]) : log[s][i].op = "GetNode" /\ log[s][i].err # NoErr}

\* Node n was returned by a resolution at position i of the log of s.
ResolvedAt(s, n) ==
    {i \in 1..Len(log[s]) : log[s][i].op = "GetNode" /\ log[s][i].err = NoErr
                             /\ log[s][i].node = n}

\* What holds of failed resolutions: a failed link resolution records nothing
\* in the seen set; ErrFunc, when there is one, is called once for it, at
\* once, with its error, and the traversal goes on to another link or stops:
\* the link is not resolved again; ErrFunc is called for nothing else. Under
\* SkipDuplicates with an ErrFunc that returns nil, a completed traversal has
\* visited once every node other than the root that some resolution
\* returned, failed resolutions of links to it before that notwithstanding,
\* and no other.
FailureRecordsNothing ==
    \A s \in Sessions :
        /\ seen[s] \subseteq {Root} \cup {n \in Nodes : ResolvedAt(s, n) # {}}
        /\ \A i \in FailedAt(s) :
             /\ i < Len(log[s]) => log[s][i + 1].op # "Seen"
             /\ IF opts[s].ErrFunc.isNil
                THEN i = Len(log[s])
                ELSE /\ i < Len(log[s])
                     /\ log[s][i + 1].op = "ErrFunc"
                     /\ LinkOf(log[s][i + 1]) = LinkOf(log[s][i])
                     /\ log[s][i + 1].err = opts[s].ErrFunc.f[log[s][i].err]
                     /\ i + 1 < Len(log[s]) =>
                          /\ log[s][i + 2].op # "ErrFunc"
                          /\ log[s][i + 2].op = "GetNode" =>
                               LinkOf(log[s][i + 2]) # LinkOf(log[s][i])
        /\ NumOp(log[s], "ErrFunc") =
              IF opts[s].ErrFunc.isNil THEN 0 ELSE Cardinality(FailedAt(s))
        /\ (/\ opts[s].SkipDuplicates /\ opts[s].ErrFunc = ErrFuncSkip
            /\ Done(s) /\ ret[s] = NoErr) =>
               \A n \in Nodes \ {Root} :
                   TimesVisited(s, n) = IF ResolvedAt(s, n) # {} THEN 1 ELSE 0

\* The first link of the root to X failed and was dropped by ErrFunc, the
\* second one resolved: X is recorded and has been visited once.
FailureRecordsNothingWitness ==
    /\ Done(1) /\ ret[1] = NoErr
    /\ opts[1].SkipDuplicates /\ opts[1].ErrFunc = ErrFuncSkip
    /\ TwoLinksToX
    /\ 1 \in DOMAIN log[1] /\ Cardinality(FailedAt(1)) = 1
    /\ \E i \in FailedAt(1) : \E j \in ResolvedAt(1, 2) :
         i < j /\ log[1][i].node = 2 /\ log[1][i].idx = 1 /\ log[1][j].idx = 2
    /\ 2 \in seen[1]
    /\ TimesVisited(1, 2) = 1

\* Node n is the target of a link whose resolution failed and of a link
\* resolved later in the log of s.
ResolvedAfterFailure(s, n) ==
    \E i \in FailedAt(s) : \E j \in ResolvedAt(s, n) : log[s][i].node = n /\ i < j

\* C19: a failed link resolution records nothing in the seen set and ErrFunc
\* is called exactly once for it, the link not being resolved again; under
\* SkipDuplicates with an ErrFunc that returns nil, a node a link to which
\* failed and a later link to which resolved has been visited exactly once
\* when the traversal returns.
C19_VisitedOnceAfterFailure ==
    /\ FailureRecordsNothing
    /\ \A s \in Sessions :
         (/\ opts[s].SkipDuplicates /\ opts[s].ErrFunc = ErrFuncSkip
          /\ Done(s) /\ ret[s] = NoErr) =>
            \A n \in Nodes : ResolvedAfterFailure(s, n) => TimesVisited(s, n) = 1

\* The same, the root of a depth-first traversal aside.
VisitedOnceAfterFailureBelowRoot ==
    \A s \in Sessions :
        (/\ opts[s].SkipDuplicates /\ opts[s].ErrFunc = ErrFuncSkip
         /\ Done(s) /\ ret[s] = NoErr) =>
           \A n \in Nodes :
               (/\ ResolvedAfterFailure(s, n)
                /\ n = Root => Dispatch(opts[s].Order) = "bfsTraverse") =>
                   TimesVisited(s, n) = 1


\* ---------------------------------------------------------------- C20
\* The number of links on a shortest path from the root to n.
Dist(n) == CHOOSE d \in 0..MaxEdges :
               n \in WalkEnds(d) /\ \A k \in 0..(d - 1) : n \notin WalkEnds(k)

QueuedNodes(s) == {q[s][i].Node : i \in 1..Len(q[s])}

\* C20: in a BFS under SkipDuplicates the seen set is the nodes visited and
\* the nodes waiting in the deque: no identifier waits in the deque twice,
\* none waits there that has been visited, none is visited twice; as long as
\* no fetch has failed every visit has the Depth of a shortest path from the
\* root, and the call, the visitor not failing, visits every reachable node.
C20_BfsDepthIsDistance ==
    \A s \in Sessions :
        (/\ opts[s].Order = BFS /\ opts[s].SkipDuplicates
         /\ pc[s] \notin {"idle", "Traverse", "bfsTraverse"}) =>
            /\ \A i, j \in 1..Len(q[s]) : q[s][i].Node = q[s][j].Node => i = j
            /\ QueuedNodes(s) \cap Visited(s) = {}
            /\ seen[s] = QueuedNodes(s) \cup Visited(s)
            /\ \A n \in Nodes : TimesVisited(s, n) <= 1
            /\ NoFetchFailed(s) =>
                 /\ \A i \in 1..Len(Visits(s)) :
                      Visits(s)[i].Depth = Dist(Visits(s)[i].Node)
                 /\ \A i \in 1..Len(q[s]) : q[s][i].Depth = Dist(q[s][i].Node)
                 /\ (Done(s) /\ NoVisitorError(s)) => Visited(s) = Reachable

\* A completed BFS of R->[A,B], A->[B]: B, also two links away from the root,
\* was visited at Depth 1.
C20_Witness ==
    /\ Done(1) /\ ret[1] = NoErr /\ opts[1].Order = BFS /\ opts[1].SkipDuplicates
    /\ NoFetchFailed(1)
    /\ graph[1] = <<2, 3>> /\ graph[2] = <<3>>
    /\ 3 \in WalkEnds(2)
    /\ Visits(1) = <<[Node |-> 1, Depth |-> 0], [Node |-> 2, Depth |-> 1],
                     [Node |-> 3, Depth |-> 1]>>

====
